---------------------------- MODULE Spec2Model ----------------------------
(***************************************************************************)
(* A model of models/capsNet.py: the capsule network of Sabour et al.      *)
(*                                                                         *)
(* Two state machines share this module.                                   *)
(*                                                                         *)
(*   SpecNet      CapsNetWithReconstruction.forward at the level of tensor *)
(*                shapes: conv1, the primary capsules, the digit capsules  *)
(*                with their routing, the capsule lengths and the decoder. *)
(*                Every tensor operation is its shape rule, and a shape    *)
(*                rule that torch rejects raises (pc = "raised").          *)
(*                                                                         *)
(*   SpecRouting  AgreementRouting.forward at the level of tensor values:  *)
(*                the softmax, the weighted sum, squash and the routing    *)
(*                loop, one action per pass of the loop.                   *)
(***************************************************************************)
EXTENDS Integers, Sequences, FiniteSets, TLC

VARIABLES
    \* ---- CapsNetWithReconstruction at the level of shapes
    n_classes,        \* CapsNet(n_classes=...)
    routing_iterations, \* CapsNet(routing_iterations, ...)
    rec_n_dim,        \* ReconstructionNet(n_dim=...)
    rec_n_classes,    \* ReconstructionNet(n_classes=...)
    pc,               \* position inside CapsNetWithReconstruction.forward
    input,            \* shape of the input batch
    x,                \* shape of the tensor the forward pass carries
    grid,             \* <<H, W>> of the primary convolution's output
    probs,            \* shape of the capsule lengths
    reconstruction,   \* shape of the decoder's output
    rowSamples,       \* per reconstruction row, the samples its elements come from
    raisedIn,         \* the layer whose shape rule raised, or "none"
    \* ---- AgreementRouting at the level of values
    self_b,           \* the parameter self.b, input_caps x output_caps
    n_iterations,     \* self.n_iterations
    rpc,              \* position inside AgreementRouting.forward
    u_predict,        \* the argument, batch x input_caps x output_caps x output_dim
    b_batch,          \* the call's logits, batch x input_caps x output_caps
    c,                \* the coupling coefficients of the last pass
    s,                \* the weighted sums of the last pass
    v,                \* the output capsules of the last pass
    r,                \* passes of the loop made so far
    updates,          \* history: assignments to b_batch inside the loop
    outputs,          \* history: every v computed by this call, in order
    b_constructed,    \* history: self.b as it was when the module was set up
    earlier           \* history: a call of forward was made before this one

netVars == <<n_classes, routing_iterations, rec_n_dim, rec_n_classes, pc,
             input, x, grid, probs, reconstruction, rowSamples, raisedIn>>

routingVars == <<self_b, n_iterations, rpc, u_predict, b_batch, c, s, v, r,
                 updates, outputs, b_constructed, earlier>>

vars == <<netVars, routingVars>>

-----------------------------------------------------------------------------
(* Bounds of the shape model. *)

\* Largest batch size of an input.
MaxBatch == 2

\* Channel counts of the inputs tried (conv1 takes 3).
Channels == {1, 3}

\* Heights and widths of the inputs tried: below and at the two kernels'
\* minimum, the three sizes of the source's comment, and sizes whose grids
\* are 9, 24, 25 and 64 wide (9 * 64 = 24 * 24).
ImageSides == {8, 16, 17, 28, 33, 34, 63, 64, 65, 128, 143, 144}

\* Constructor arguments tried.
ClassCounts == {10, 20}
RecDims == {8, 16}
RecClassCounts == {10, 20}
RoutingIterationCounts == {0, 1, 3}

-----------------------------------------------------------------------------
(* Shapes and torch's shape rules. A shape is a sequence of sizes; ERR is   *)
(* the outcome of an operation that raises.                                 *)

ERR == <<-1>>

IsErr(sh) == sh = ERR

RECURSIVE Numel(_)
Numel(sh) == IF sh = <<>> THEN 1 ELSE Head(sh) * Numel(Tail(sh))

Max(a, b) == IF a >= b THEN a ELSE b

\* Conv2d with the output size short of its last window: (size - k) / st.
Conv2d_NoLastWindow(sh, in_ch, out_ch, k, st) ==
    IF sh = ERR \/ Len(sh) # 4 THEN ERR
    ELSE IF sh[2] # in_ch \/ sh[3] < k \/ sh[4] < k THEN ERR
    ELSE <<sh[1], out_ch, (sh[3] - k) \div st, (sh[4] - k) \div st>>

\* nn.Conv2d(in_ch, out_ch, kernel_size=k, stride=st) without padding.
Conv2d(sh, in_ch, out_ch, k, st) ==
    IF IsErr(sh) \/ Len(sh) # 4 THEN ERR
    ELSE IF sh[2] # in_ch \/ sh[3] < k \/ sh[4] < k THEN ERR
    ELSE <<sh[1], out_ch, ((sh[3] - k) \div st) + 1, ((sh[4] - k) \div st) + 1>>

\* tensor.view(*target): at most one -1, which is inferred; the element
\* counts must agree.
View(sh, target) ==
    IF IsErr(sh) THEN ERR
    ELSE LET holes == {i \in 1..Len(target) : target[i] = -1}
             known == Numel([i \in 1..Len(target) |->
                               IF target[i] = -1 THEN 1 ELSE target[i]])
         IN  IF Cardinality(holes) > 1 THEN ERR
             ELSE IF holes = {}
                  THEN IF known = Numel(sh) THEN target ELSE ERR
             ELSE IF known = 0 \/ Numel(sh) % known # 0 THEN ERR
             ELSE [i \in 1..Len(target) |->
                     IF target[i] = -1 THEN Numel(sh) \div known ELSE target[i]]

\* tensor.unsqueeze(d), d counted from 0.
Unsqueeze(sh, d) ==
    IF IsErr(sh) THEN ERR
    ELSE SubSeq(sh, 1, d) \o <<1>> \o SubSeq(sh, d + 1, Len(sh))

\* tensor.permute(*order), order counted from 0.
Permute(sh, order) ==
    IF IsErr(sh) \/ Len(order) # Len(sh) THEN ERR
    ELSE [i \in 1..Len(order) |-> sh[order[i] + 1]]

\* tensor.sum(dim=d), d counted from 0: the dimension is removed.
SumDim(sh, d) ==
    IF IsErr(sh) \/ d >= Len(sh) THEN ERR
    ELSE SubSeq(sh, 1, d) \o SubSeq(sh, d + 2, Len(sh))

\* Broadcasting of two shapes, aligned at their last dimensions.
Broadcast(a, b) ==
    IF IsErr(a) \/ IsErr(b) THEN ERR
    ELSE LET n == Max(Len(a), Len(b))
             pa == [i \in 1..n |-> IF i <= n - Len(a) THEN 1 ELSE a[i - (n - Len(a))]]
             pb == [i \in 1..n |-> IF i <= n - Len(b) THEN 1 ELSE b[i - (n - Len(b))]]
         IN  IF \E i \in 1..n : pa[i] # pb[i] /\ pa[i] # 1 /\ pb[i] # 1 THEN ERR
             ELSE [i \in 1..n |-> IF pa[i] = 1 THEN pb[i] ELSE pa[i]]

\* a.matmul(b) for tensors of at least 3 dimensions: the batch dimensions
\* broadcast, the last two multiply as matrices.
Matmul(a, b) ==
    IF IsErr(a) \/ IsErr(b) \/ Len(a) < 3 \/ Len(b) < 3 THEN ERR
    ELSE LET batch == Broadcast(SubSeq(a, 1, Len(a) - 2), SubSeq(b, 1, Len(b) - 2))
         IN  IF IsErr(batch) \/ a[Len(a)] # b[Len(b) - 1] THEN ERR
             ELSE batch \o <<a[Len(a) - 1], b[Len(b)]>>

\* tensor.expand(target) of a tensor with fewer dimensions.
Expand(sh, target) ==
    IF IsErr(sh) THEN ERR
    ELSE IF Broadcast(sh, target) = target THEN target ELSE ERR

\* nn.Linear(in_features, out_features) applied to a tensor.
Linear(sh, in_features, out_features) ==
    IF IsErr(sh) \/ Len(sh) = 0 THEN ERR
    ELSE IF sh[Len(sh)] # in_features THEN ERR
    ELSE SubSeq(sh, 1, Len(sh) - 1) \o <<out_features>>

-----------------------------------------------------------------------------
(* The layers' parameters. *)

Conv1InChannels == 3
Conv1OutChannels == 256
Conv1Kernel == 9
Conv1Stride == 1
PrimaryOutputCaps == 32
PrimaryOutputDim == 8
PrimaryKernel == 9
PrimaryStride == 2
\* The capsule count of a 28 x 28 input, left in place of the 64 x 64 one.
num_primaryCaps_28 == 32 * 6 * 6
num_primaryCaps == 32 * 24 * 24
DigitInputDim == 8
DigitOutputDim == 16
Fc1Out == 1000
Fc2Out == 2000
Fc3Out == 4096

-----------------------------------------------------------------------------
(* The layers' forward passes on shapes. *)

\* squash(x): lengths2 = x.pow(2).sum(dim=2); the factor is viewed as
\* (x.size(0), x.size(1), 1) and multiplied into x.
SquashShape(sh) ==
    IF IsErr(sh) \/ Len(sh) < 3 THEN ERR
    ELSE Broadcast(sh, View(SumDim(sh, 2), <<sh[1], sh[2], 1>>))

\* One pass of the routing loop on shapes: lines 40-45.
RoutingPassShape(u, b_b, v0) ==
    LET v1 == Unsqueeze(v0, 1)
        bb == Broadcast(b_b, SumDim(Broadcast(u, v1), 3))
        cc == View(View(bb, <<-1, u[3]>>), <<-1, u[2], u[3], 1>>)
    IN  SquashShape(SumDim(Broadcast(cc, u), 1))

RECURSIVE RoutingLoopShape(_, _, _, _)
RoutingLoopShape(u, b_b, v0, k) ==
    IF k = 0 \/ IsErr(v0) THEN v0
    ELSE RoutingLoopShape(u, b_b, RoutingPassShape(u, b_b, v0), k - 1)

\* AgreementRouting(input_caps, output_caps, n_iter).forward(u_predict).
AgreementRoutingShape(u, input_caps, output_caps, n_iter) ==
    IF IsErr(u) \/ Len(u) # 4 THEN ERR
    ELSE LET b0 == <<input_caps, output_caps>>
             v0 == SquashShape(SumDim(Broadcast(Unsqueeze(b0, 2), u), 1))
         IN  IF n_iter > 0 /\ ~IsErr(v0)
             THEN LET b_b == Expand(b0, <<u[1], u[2], u[3]>>)
                  IN  IF IsErr(b_b) THEN ERR
                      ELSE RoutingLoopShape(u, b_b, v0, n_iter)
             ELSE v0

\* CapsLayer(input_caps, input_dim, output_caps, output_dim, routing).forward.
CapsLayerShape(sh, input_caps, input_dim, output_caps, output_dim, n_iter) ==
    LET caps_output == Unsqueeze(sh, 2)
        weights == <<input_caps, input_dim, output_caps * output_dim>>
        prod == Matmul(caps_output, weights)
        u == IF IsErr(prod) THEN ERR
             ELSE View(prod, <<prod[1], input_caps, output_caps, output_dim>>)
    IN  AgreementRoutingShape(u, input_caps, output_caps, n_iter)

\* The output of PrimaryCapsLayer's convolution.
PrimaryConvShape(sh) ==
    Conv2d(sh, Conv1OutChannels, PrimaryOutputCaps * PrimaryOutputDim,
           PrimaryKernel, PrimaryStride)

\* PrimaryCapsLayer.forward.
PrimaryCapsShape(sh) ==
    LET out == PrimaryConvShape(sh)
    IN  IF IsErr(out) THEN ERR
        ELSE LET v5 == View(out, <<out[1], PrimaryOutputCaps, PrimaryOutputDim,
                                   out[3], out[4]>>)
                 p5 == Permute(v5, <<0, 1, 3, 4, 2>>)
             IN  IF IsErr(p5) THEN ERR
                 ELSE SquashShape(View(p5, <<p5[1], -1, p5[5]>>))

\* The row length without the class count: one capsule per row.
ReconInFeatures_PerCapsule(n_dim, n_cls) == n_dim

\* The row length ReconstructionNet flattens to and fc1 takes.
ReconInFeatures(n_dim, n_cls) == n_dim * n_cls

\* ReconstructionNet.forward.
ReconstructionShape(sh, n_dim, n_cls) ==
    LET flat == View(sh, <<-1, ReconInFeatures(n_dim, n_cls)>>)
        h1 == Linear(flat, ReconInFeatures(n_dim, n_cls), Fc1Out)
        h2 == Linear(h1, Fc1Out, Fc2Out)
    IN  Linear(h2, Fc2Out, Fc3Out)

\* The samples whose elements the given row (from 1) of x.view(-1, rowLen) holds,
\* x being of shape sh with one sample per index of its first dimension.
RowSamplesOf(sh, rowLen, row) ==
    LET perSample == Numel(Tail(sh))
    IN  {e \div perSample + 1 : e \in ((row - 1) * rowLen)..(row * rowLen - 1)}

-----------------------------------------------------------------------------
(* CapsNetWithReconstruction.forward, one action per layer.                 *)

NoShape == <<>>

\* The routing module of the value model, before any call.
RoutingIdle ==
    /\ rpc = "idle"
    /\ u_predict = <<>> /\ b_batch = <<>> /\ c = <<>> /\ s = <<>> /\ v = <<>>
    /\ r = 0 /\ updates = 0 /\ outputs = <<>>

InitNet ==
    /\ self_b = <<>> /\ n_iterations = 0 /\ b_constructed = <<>> /\ earlier = FALSE
    /\ RoutingIdle
    /\ n_classes \in ClassCounts
    /\ routing_iterations \in RoutingIterationCounts
    /\ rec_n_dim \in RecDims
    /\ rec_n_classes \in RecClassCounts
    /\ pc = "idle"
    /\ input = NoShape
    /\ x = NoShape
    /\ grid = NoShape
    /\ probs = NoShape
    /\ reconstruction = NoShape
    /\ rowSamples = <<>>
    /\ raisedIn = "none"

netConfig == <<n_classes, routing_iterations, rec_n_dim, rec_n_classes>>

\* A layer's outcome: its result and the next position, or the exception.
Step(layer, result, next) ==
    /\ x' = result
    /\ pc' = IF IsErr(result) THEN "raised" ELSE next
    /\ raisedIn' = IF IsErr(result) THEN layer ELSE "none"

\* model(x, target) is called on a batch of N images of C x H x W.
Call ==
    /\ pc = "idle"
    /\ \E N \in 1..MaxBatch, C \in Channels, H \in ImageSides, W \in ImageSides :
          input' = <<N, C, H, W>>
    /\ pc' = "conv1"
    /\ x' = NoShape /\ grid' = NoShape /\ probs' = NoShape
    /\ reconstruction' = NoShape /\ rowSamples' = <<>> /\ raisedIn' = "none"
    /\ UNCHANGED <<netConfig, routingVars>>

\* x = F.relu(self.conv1(input))
Conv1 ==
    /\ pc = "conv1"
    /\ Step("conv1",
            Conv2d(input, Conv1InChannels, Conv1OutChannels, Conv1Kernel, Conv1Stride),
            "primaryCaps")
    /\ UNCHANGED <<netConfig, input, grid, probs, reconstruction, rowSamples, routingVars>>

\* x = self.primaryCaps(x)
PrimaryCaps ==
    /\ pc = "primaryCaps"
    /\ Step("primaryCaps", PrimaryCapsShape(x), "digitCaps")
    /\ grid' = LET out == PrimaryConvShape(x)
               IN  IF IsErr(out) THEN NoShape ELSE <<out[3], out[4]>>
    /\ UNCHANGED <<netConfig, input, probs, reconstruction, rowSamples, routingVars>>

\* x = self.digitCaps(x)
DigitCaps ==
    /\ pc = "digitCaps"
    /\ Step("digitCaps",
            CapsLayerShape(x, num_primaryCaps, DigitInputDim, n_classes,
                           DigitOutputDim, routing_iterations),
            "lengths")
    /\ UNCHANGED <<netConfig, input, grid, probs, reconstruction, rowSamples, routingVars>>

\* probs = x.pow(2).sum(dim=2).sqrt(); return x, probs
Lengths ==
    /\ pc = "lengths"
    /\ probs' = SumDim(x, 2)
    /\ pc' = "reconstruction_net"
    /\ UNCHANGED <<netConfig, input, x, grid, reconstruction, rowSamples, raisedIn,
                   routingVars>>

\* reconstruction = self.reconstruction_net(x, target); return reconstruction, probs
Reconstruct ==
    /\ pc = "reconstruction_net"
    /\ LET rec == ReconstructionShape(x, rec_n_dim, rec_n_classes)
       IN  /\ reconstruction' = rec
           /\ pc' = IF IsErr(rec) THEN "raised" ELSE "returned"
           /\ raisedIn' = IF IsErr(rec) THEN "reconstruction_net" ELSE "none"
           /\ rowSamples' =
                 IF IsErr(rec) THEN <<>>
                 ELSE [row \in 1..rec[1] |->
                         RowSamplesOf(x, ReconInFeatures(rec_n_dim, rec_n_classes), row)]
    /\ UNCHANGED <<netConfig, input, x, grid, probs, routingVars>>

\* The call is over (it returned or raised); the model can be called again.
Finish ==
    /\ pc \in {"returned", "raised"}
    /\ pc' = "idle"
    /\ input' = NoShape /\ x' = NoShape /\ grid' = NoShape /\ probs' = NoShape
    /\ reconstruction' = NoShape /\ rowSamples' = <<>> /\ raisedIn' = "none"
    /\ UNCHANGED <<netConfig, routingVars>>

NextNet == Call \/ Conv1 \/ PrimaryCaps \/ DigitCaps \/ Lengths \/ Reconstruct \/ Finish

SpecNet == InitNet /\ [][NextNet]_vars

\* CapsNet.forward is over: it raised, or it returned x and probs.
CapsNetRaised == pc = "raised" /\ raisedIn \in {"conv1", "primaryCaps", "digitCaps"}
CapsNetReturned ==
    \/ pc \in {"reconstruction_net", "returned"}
    \/ pc = "raised" /\ raisedIn = "reconstruction_net"

-----------------------------------------------------------------------------
(* Claims about the shapes.                                                 *)

\* The grid size the claims state for an input side: floor((side-8-9)/2)+1.
GridSide(side) == ((side - 8 - 9) \div 2) + 1

C6_ReconstructionHasInputSize ==
    pc = "returned" =>
        /\ Len(reconstruction) = 2
        /\ reconstruction[2] = input[2] * input[3] * input[4]

\* C7: with the layers' parameters a 28 x 28 input yields a 6 x 6 grid of
\* primary capsules, 64 x 64 yields 24 x 24 and 128 x 128 yields 56 x 56, and
\* num_primaryCaps is the capsule count the primary layer returns for 64 x 64.
C7_GridSizesOfTheComment ==
    grid # NoShape =>
        /\ \A d \in {1, 2} :
              /\ input[d + 2] = 28 => grid[d] = 6
              /\ input[d + 2] = 64 => grid[d] = 24
              /\ input[d + 2] = 128 => grid[d] = 56
        /\ (pc = "digitCaps" /\ input[3] = 64 /\ input[4] = 64) =>
              /\ x = <<input[1], 32 * 24 * 24, 8>>
              /\ x[2] = num_primaryCaps

\* C7's case: the primary capsules of a 28 x 128 input were computed.
C7_Witness ==
    /\ pc = "digitCaps" /\ input[3] = 28 /\ input[4] = 128 /\ grid = <<6, 56>>

\* C9 as stated: whenever the forward pass returns, whatever n_classes of
\* the CapsNet and n_dim, n_classes of the ReconstructionNet, the
\* reconstruction has exactly N rows, each row made of its own sample's capsules.
C9_RowsPerSampleAnyConfig ==
    pc = "returned" =>
        /\ reconstruction[1] = input[1]
        /\ \A row \in 1..reconstruction[1] : rowSamples[row] = {row}

\* C9 amended: the same, when the decoder's n_dim * n_classes is the
\* 16 * n_classes elements of one sample's output capsules.
C9_RowsPerSampleMatchingConfig ==
    (pc = "returned" /\ rec_n_dim * rec_n_classes = 16 * n_classes) =>
        /\ reconstruction[1] = input[1]
        /\ \A row \in 1..reconstruction[1] : rowSamples[row] = {row}

\* C9's case: a batch of 2 went through a decoder that matches the capsules.
C9_Witness ==
    /\ pc = "returned" /\ input[1] = 2
    /\ rec_n_dim * rec_n_classes = 16 * n_classes
    /\ reconstruction = <<2, 4096>>

-----------------------------------------------------------------------------
(* Values. A scalar is a fixed-point number, an integer counting units of   *)
(* 1/Scale, rounded to the nearest unit after every multiplication and      *)
(* division as a float is rounded to its nearest neighbour; or it is NaN,   *)
(* which every operation hands on. 0/0 is NaN; no non-zero number is ever   *)
(* divided by zero in this code, and Div has no value for it.               *)

\* Units per 1.0.
Scale == 64

NaN == 0 - 1000 * 1000 * 1000

IsNaN(a) == a = NaN

Abs(a) == IF a < 0 THEN 0 - a ELSE a

\* num / den to the nearest integer, den > 0.
Round(num, den) == (2 * num + den) \div (2 * den)

Add(a, b) == IF IsNaN(a) \/ IsNaN(b) THEN NaN ELSE a + b

Mul(a, b) == IF IsNaN(a) \/ IsNaN(b) THEN NaN ELSE Round(a * b, Scale)

Div(a, b) ==
    IF IsNaN(a) \/ IsNaN(b) THEN NaN
    ELSE IF b = 0 /\ a = 0 THEN NaN
    ELSE IF b < 0 THEN Round((0 - a) * Scale, 0 - b)
    ELSE Round(a * Scale, b)

RECURSIVE SumSeq(_)
SumSeq(q) == IF q = <<>> THEN 0 ELSE Add(Head(q), SumSeq(Tail(q)))

RECURSIVE MaxSeq(_)
MaxSeq(q) ==
    IF Len(q) = 1 THEN q[1]
    ELSE LET m == MaxSeq(Tail(q)) IN IF q[1] >= m THEN q[1] ELSE m

HasNaN(q) == \E k \in DOMAIN q : IsNaN(q[k])

\* The integer square root of n >= 0, to the nearest integer.
RECURSIVE SqrtBetween(_, _, _)
SqrtBetween(n, lo, hi) ==
    IF hi - lo <= 1
    THEN IF hi * hi - n < n - lo * lo THEN hi ELSE lo
    ELSE LET mid == (lo + hi) \div 2
         IN  IF mid * mid <= n THEN SqrtBetween(n, mid, hi)
             ELSE SqrtBetween(n, lo, mid)

ISqrt(n) == IF n = 0 THEN 0 ELSE SqrtBetween(n, 0, n + 1)

\* exp(-t) for t >= 0, as 1 / (1 + t + t^2/2 + t^3/6 + t^4/24): positive
\* until it rounds to 0, never above 1, and 1 at t = 0.
ExpNeg(t) ==
    LET t2 == Round(t * t, 2 * Scale)
        t3 == Round(t2 * t, 3 * Scale)
        t4 == Round(t3 * t, 4 * Scale)
    IN  Round(Scale * Scale, Scale + t + t2 + t3 + t4)

\* softmax of one row: exp(x - max) / sum, as torch computes it.
SoftmaxRow(row) ==
    IF HasNaN(row) THEN [j \in DOMAIN row |-> NaN]
    ELSE LET m == MaxSeq(row)
             e == [j \in DOMAIN row |-> ExpNeg(m - row[j])]
             total == SumSeq(e)
         IN  [j \in DOMAIN row |-> Div(e[j], total)]

\* F.softmax(t) of a 2-dimensional tensor: without dim, torch takes dim 1.
Softmax2D(t) == [k \in DOMAIN t |-> SoftmaxRow(t[k])]

-----------------------------------------------------------------------------
(* squash and the tensor operations of AgreementRouting.forward.            *)

\* squash of one capsule vector, a slice of x along dim 2. lengths2 is the
\* exact sum of squares, in units of 1/Scale^2, so that the square of a
\* non-zero number is not zero; so is lengths2 / (1 + lengths2).
SquashVec(xv) ==
    IF HasNaN(xv) THEN [d \in DOMAIN xv |-> NaN]
    ELSE LET lengths2 == SumSeq([d \in DOMAIN xv |-> xv[d] * xv[d]])
             lengths == ISqrt(lengths2)
             ratio == Round(lengths2 * Scale * Scale, Scale * Scale + lengths2)
             factor == IF lengths = 0 /\ ratio = 0 THEN NaN ELSE Round(ratio, lengths)
         IN  [d \in DOMAIN xv |-> Mul(xv[d], factor)]

\* squash(x) of a 3-dimensional tensor.
squash(t) == [n \in DOMAIN t |-> [j \in DOMAIN t[n] |-> SquashVec(t[n][j])]]

\* (c.unsqueeze(2) * u_predict).sum(dim=1) with c of input_caps x output_caps.
WeightedSum2(cc, u) ==
    [n \in DOMAIN u |-> [j \in DOMAIN cc[1] |-> [d \in DOMAIN u[n][1][j] |->
        SumSeq([i \in DOMAIN cc |-> Mul(cc[i][j], u[n][i][j][d])])]]]

\* (c * u_predict).sum(dim=1) with c of batch x input_caps x output_caps x 1.
WeightedSum4(cc, u) ==
    [n \in DOMAIN u |-> [j \in DOMAIN u[n][1] |-> [d \in DOMAIN u[n][1][j] |->
        SumSeq([i \in DOMAIN u[n] |-> Mul(cc[n][i][j][1], u[n][i][j][d])])]]]

\* (u_predict * v.unsqueeze(1)).sum(-1)
Agreement(u, vv) ==
    [n \in DOMAIN u |-> [i \in DOMAIN u[n] |-> [j \in DOMAIN u[n][i] |->
        SumSeq([d \in DOMAIN u[n][i][j] |-> Mul(u[n][i][j][d], vv[n][j][d])])]]]

\* self.b.expand((batch_size, input_caps, output_caps))
ExpandBatch(b, batch_size) == [n \in 1..batch_size |-> b]

\* The agreement replaces the logits instead of adding to them.
UpdateLogits_Replace(bb, a) == a

\* b_batch + agreement
UpdateLogits(bb, a) ==
    [n \in DOMAIN bb |-> [i \in DOMAIN bb[n] |-> [j \in DOMAIN bb[n][i] |->
        Add(bb[n][i][j], a[n][i][j])]]]

\* b_batch.view(-1, output_caps): the elements in row-major order, cut into
\* rows of output_caps.
ViewRows(bb, output_caps) ==
    LET I == Len(bb[1])
        J == Len(bb[1][1])
        at(k) == bb[(k \div (I * J)) + 1][((k \div J) % I) + 1][(k % J) + 1]
    IN  [row \in 1..((Len(bb) * I * J) \div output_caps) |->
            [j \in 1..output_caps |-> at((row - 1) * output_caps + j - 1)]]

\* rows.view(-1, input_caps, output_caps, 1)
ViewCoupling(rows, input_caps, output_caps) ==
    LET W == Len(rows[1])
        at(k) == rows[(k \div W) + 1][(k % W) + 1]
    IN  [n \in 1..((Len(rows) * W) \div (input_caps * output_caps)) |->
            [i \in 1..input_caps |-> [j \in 1..output_caps |->
                <<at((n - 1) * input_caps * output_caps + (i - 1) * output_caps + j - 1)>>]]]

\* Line 43: c = F.softmax(b_batch.view(-1, output_caps)).view(-1, input_caps, output_caps, 1)
Coupling(bb) ==
    LET input_caps == Len(bb[1])
        output_caps == Len(bb[1][1])
    IN  ViewCoupling(Softmax2D(ViewRows(bb, output_caps)), input_caps, output_caps)

\* A loop that makes one pass too many.
LoopContinues_Inclusive(rr, n_iter) == rr <= n_iter

\* range(self.n_iterations) has another r to give.
LoopContinues(rr, n_iter) == rr < n_iter

\* An update in place, which writes through the expanded view into self.b.
ParamAfterPass_InPlace(b, bb) == bb[1]

\* Line 41 builds a new tensor from b_batch: the parameter b_batch was
\* expanded from is not written. The parameter after a pass that computed bb.
ParamAfterPass(b, bb) == b

\* One pass of the loop, lines 40-45, from the logits bb and the output vv:
\* the new logits, coefficients, sums and output.
Pass(u, bb, vv) ==
    LET nb == UpdateLogits(bb, Agreement(u, vv))
        nc == Coupling(nb)
        ns == WeightedSum4(nc, u)
    IN  [b_batch |-> nb, c |-> nc, s |-> ns, v |-> squash(ns)]

RECURSIVE RoutingLoop(_, _, _, _)
RoutingLoop(u, bb, vv, k) ==
    IF k = 0 THEN vv
    ELSE CHOOSE result \in {RoutingLoop(u, p.b_batch, p.v, k - 1) :
                               p \in {Pass(u, bb, vv)}} : TRUE

\* AgreementRouting.forward as a function of the parameter, the iteration
\* count and the argument. Each line's result is bound once, as the member
\* of a one-element set, so that it is evaluated once.
forward(b, n_iter, u) ==
    CHOOSE result \in
        {IF n_iter > 0 THEN RoutingLoop(u, bb, v0, n_iter) ELSE v0 :
            v0 \in {squash(s0) : s0 \in {WeightedSum2(c0, u) : c0 \in {Softmax2D(b)}}},
            bb \in {ExpandBatch(b, Len(u))}} : TRUE

-----------------------------------------------------------------------------
(* Bounds of the value model and the arguments tried.                       *)

InputCaps == 2
OutputCaps == 3
OutputDim == 2
MaxIterations == 2

\* u_predict is drawn from the tensors whose elements, in row-major order,
\* repeat a pattern of PatternLen values out of -1, 0 and 1; the pattern is
\* the base-3 digits of a seed, and each sample starts one place further.
PatternLen == 4

\* Batch sizes of the arguments tried.
BatchSizes == {1, 2}

\* Seeds of self.b: 0 for the zeros it is constructed with, others for
\* trained values.
ParamSeeds == {0, 1}

RECURSIVE Pow3(_)
Pow3(k) == IF k = 0 THEN 1 ELSE 3 * Pow3(k - 1)

PatternValue(seed, place) == (((seed \div Pow3(place % PatternLen)) % 3) - 1) * Scale

UPredict(batch_size, seed) ==
    [n \in 1..batch_size |-> [i \in 1..InputCaps |-> [j \in 1..OutputCaps |->
        [d \in 1..OutputDim |->
            PatternValue(seed, n - 1 + ((i - 1) * OutputCaps + (j - 1)) * OutputDim + (d - 1))]]]]

\* self.b: zeros as constructed (seed 0), or a trained value.
ParamB(seed) ==
    [i \in 1..InputCaps |-> [j \in 1..OutputCaps |->
        IF seed = 0 THEN 0 ELSE (Scale \div 2) * (((seed * i + j) % 3) - 1)]]

-----------------------------------------------------------------------------
(* AgreementRouting.forward, one action per pass.                           *)

routingConfig == <<n_iterations, b_constructed>>

NetIdle ==
    /\ n_classes = 20 /\ routing_iterations = 0 /\ rec_n_dim = 16 /\ rec_n_classes = 20
    /\ pc = "idle" /\ input = NoShape /\ x = NoShape /\ grid = NoShape
    /\ probs = NoShape /\ reconstruction = NoShape /\ rowSamples = <<>>
    /\ raisedIn = "none"

InitRouting ==
    /\ NetIdle
    /\ earlier = FALSE
    /\ \E seed \in ParamSeeds : self_b = ParamB(seed)
    /\ b_constructed = self_b
    /\ n_iterations \in 0..MaxIterations
    /\ RoutingIdle

\* forward(u_predict) up to the loop: lines 31-38.
Forward ==
    /\ rpc = "idle"
    /\ \E batch_size \in BatchSizes, seed \in 0..(Pow3(PatternLen) - 1) :
          u_predict' = UPredict(batch_size, seed)
    /\ c' = Softmax2D(self_b)
    /\ s' = WeightedSum2(c', u_predict')
    /\ v' = squash(s')
    /\ outputs' = <<v'>>
    /\ updates' = 0
    /\ r' = 0
    /\ IF n_iterations > 0
       THEN b_batch' = ExpandBatch(self_b, Len(u_predict')) /\ rpc' = "loop"
       ELSE b_batch' = <<>> /\ rpc' = "returned"
    /\ UNCHANGED <<self_b, earlier, routingConfig, netVars>>

\* One pass of the loop: lines 39-45.
LoopPass ==
    /\ rpc = "loop"
    /\ LoopContinues(r, n_iterations)
    /\ LET p == Pass(u_predict, b_batch, v)
       IN  /\ b_batch' = p.b_batch
           /\ c' = p.c
           /\ s' = p.s
           /\ v' = p.v
           /\ self_b' = ParamAfterPass(self_b, p.b_batch)
    /\ updates' = updates + 1
    /\ outputs' = Append(outputs, v')
    /\ r' = r + 1
    /\ UNCHANGED <<rpc, u_predict, earlier, routingConfig, netVars>>

\* The loop is over: return v, line 47.
Return ==
    /\ rpc = "loop"
    /\ ~LoopContinues(r, n_iterations)
    /\ rpc' = "returned"
    /\ UNCHANGED <<self_b, u_predict, b_batch, c, s, v, r, updates, outputs, earlier,
                   routingConfig, netVars>>

\* The caller takes the result; the call's locals are gone, and the next
\* call has one before it.
Release ==
    /\ rpc = "returned"
    /\ rpc' = "idle"
    /\ u_predict' = <<>> /\ b_batch' = <<>> /\ c' = <<>> /\ s' = <<>> /\ v' = <<>>
    /\ r' = 0 /\ updates' = 0 /\ outputs' = <<>>
    /\ earlier' = TRUE
    /\ UNCHANGED <<self_b, routingConfig, netVars>>

NextRouting == Forward \/ LoopPass \/ Return \/ Release

SpecRouting == InitRouting /\ [][NextRouting]_vars

-----------------------------------------------------------------------------
(* Claims about the routing.                                                *)

InCall == rpc \in {"loop", "returned"}

\* C1: forward is a fixed-iteration loop: with n_iterations = k it makes
\* exactly k updates of the logits and k + 1 computations of v, one before
\* the loop and one per pass, and then returns; with k = 0 the result is the
\* single pass squash(sum_i softmax(self.b)[i,j] * u_predict[i,j]) and no
\* logits exist.
C1_FixedIterationLoop ==
    /\ InCall => /\ updates = r
                 /\ Len(outputs) = r + 1
                 /\ r <= n_iterations
    /\ rpc = "returned" =>
          /\ updates = n_iterations
          /\ Len(outputs) = n_iterations + 1
          /\ n_iterations = 0 =>
                /\ b_batch = <<>>
                /\ v = squash(WeightedSum2(Softmax2D(self_b), u_predict))

\* C1's case: a call with 2 iterations has returned.
C1_Witness ==
    /\ rpc = "returned" /\ n_iterations = 2 /\ updates = 2 /\ Len(outputs) = 3

\* <u_predict[n,i,j], v_k[n,j]>
Dot(uv, vv) == SumSeq([d \in DOMAIN uv |-> Mul(uv[d], vv[d])])

NoNaNIn3(t) ==
    \A n \in DOMAIN t : \A i \in DOMAIN t[n] : ~HasNaN(t[n][i])

\* C2: after r passes the logit of (sample n, input capsule i, output
\* capsule j) is self.b[i,j] plus the agreements <u_predict[n,i,j], v_k[n,j]>
\* with the r outputs computed before, v_0 .. v_{r-1}: the logits accumulate;
\* and the v of a pass is squash of the sums weighted by the softmax, over
\* the output capsules, of these logits.
C2_LogitsAccumulateAgreement ==
    (InCall /\ n_iterations > 0) =>
        /\ \A n \in DOMAIN u_predict : \A i \in 1..InputCaps : \A j \in 1..OutputCaps :
              b_batch[n][i][j] =
                 Add(self_b[i][j],
                     SumSeq([k \in 1..r |-> Dot(u_predict[n][i][j], outputs[k][n][j])]))
        /\ r > 0 =>
              /\ \A n \in DOMAIN u_predict : \A i \in 1..InputCaps :
                    [j \in 1..OutputCaps |-> c[n][i][j][1]] = SoftmaxRow(b_batch[n][i])
              /\ \A n \in DOMAIN u_predict : \A j \in 1..OutputCaps :
                    /\ s[n][j] = [d \in 1..OutputDim |->
                          SumSeq([i \in 1..InputCaps |->
                                    Mul(c[n][i][j][1], u_predict[n][i][j][d])])]
                    /\ v[n][j] = SquashVec(s[n][j])
              /\ v = outputs[r + 1]

\* C2's case: two passes were made from a trained self.b, no NaN anywhere,
\* and the agreements moved the logits.
C2_Witness ==
    /\ rpc = "loop" /\ r = 2
    /\ self_b # ParamB(0)
    /\ NoNaNIn3(b_batch) /\ NoNaNIn3(v)
    /\ \A n \in DOMAIN b_batch : b_batch[n] # self_b

\* What C3 says of squash's result out for the capsule vector xv, up to the
\* rounding of the last unit: out is a vector of numbers; it points where
\* xv points (no component changes sign, and out is parallel to xv); its
\* length is below 1 and is |xv|^2 / (1 + |xv|^2).
SquashedAsClaimed(xv, out) ==
    LET lengths2 == SumSeq([d \in DOMAIN xv |-> xv[d] * xv[d]])
        outLength == ISqrt(SumSeq([d \in DOMAIN out |-> out[d] * out[d]]))
    IN  /\ ~HasNaN(out)
        /\ \A d \in DOMAIN xv : out[d] * xv[d] >= 0
        /\ \A d, e \in DOMAIN xv :
              2 * Abs(out[d] * xv[e] - out[e] * xv[d]) <= Abs(xv[d]) + Abs(xv[e])
        /\ outLength < Scale
        /\ Abs(outLength - Round(lengths2 * Scale, Scale * Scale + lengths2)) <= 2

\* C3: squash maps every capsule vector, the all-zero vector included, to a
\* vector of the same direction whose length |x|^2 / (1 + |x|^2) lies in
\* [0, 1).
C3_SquashMapsEveryVectorBelowOne ==
    InCall => \A n \in DOMAIN s : \A j \in DOMAIN s[n] :
                 ~HasNaN(s[n][j]) => SquashedAsClaimed(s[n][j], v[n][j])

\* C3 without the all-zero vector.
SquashOfNonZeroAsClaimed ==
    InCall => \A n \in DOMAIN s : \A j \in DOMAIN s[n] :
                 (~HasNaN(s[n][j]) /\ \E d \in DOMAIN s[n][j] : s[n][j][d] # 0)
                     => SquashedAsClaimed(s[n][j], v[n][j])

\* C4: forward never writes self.b, which stays what it was constructed
\* with through any sequence of calls, and a call's result is a function of
\* its argument alone, whatever calls preceded it.
C4_ForwardKeepsNoState ==
    /\ self_b = b_constructed
    /\ rpc = "returned" => v = forward(b_constructed, n_iterations, u_predict)

\* C4's case: a second call with passes of the loop has returned.
C4_Witness ==
    /\ rpc = "returned" /\ earlier /\ n_iterations = 2 /\ self_b # ParamB(0)
    /\ NoNaNIn3(v)

\* A row of coupling coefficients is normalised: numbers, none negative,
\* summing to 1 up to the rounding of each.
RowNormalised(row) ==
    /\ ~HasNaN(row)
    /\ \A j \in DOMAIN row : row[j] >= 0
    /\ 2 * Abs(SumSeq(row) - Scale) <= Len(row)

\* C8: at every point of forward, the initial pass and each pass of the
\* loop, the coupling coefficients of every sample and every input capsule
\* are non-negative and sum to 1 over the output capsules.
C8_CouplingNormalisedOverOutputCaps ==
    InCall =>
        IF r = 0
        THEN \A i \in 1..InputCaps : RowNormalised(c[i])
        ELSE \A n \in DOMAIN u_predict : \A i \in 1..InputCaps :
                RowNormalised([j \in 1..OutputCaps |-> c[n][i][j][1]])

\* C8 for the passes whose logits hold no NaN.
CouplingNormalisedWithoutNaN ==
    (InCall /\ (r > 0 => NoNaNIn3(b_batch))) => C8_CouplingNormalisedOverOutputCaps

=============================================================================
